---- MODULE Spec2Model ----
(***************************************************************************)
(* A model of the publishing engine of src/main.py: the FileStore, the     *)
(* PublishLog built on it, WebhookSender.send and the LanguageWorker loop, *)
(* together with the add_article handler and the process boot.             *)
(*                                                                         *)
(* Text is modelled as a sequence of tokens.  A token is a record          *)
(* [k, n]: a literal piece of text (n = 0), a decimal number or a          *)
(* YYYY-MM-DD date.  A ledger file is the token sequence of its content,   *)
(* line breaks included, so that reading it back splits and strips lines   *)
(* the way FileStore.read_lines does.                                      *)
(***************************************************************************)
EXTENDS Integers, Sequences, FiniteSets, TLC

VARIABLES
    \* ---- the publishing system -------------------------------------------
    articles,     \* articles[l]: the article collection file of language l
    ledger,       \* ledger[l]: the content of the log file of language l
    today,        \* the current UTC date, as a day number
    pc,           \* pc[l]: where the worker thread of language l stands
    quota,        \* quota[l]: LanguageWorker.quota
    selected,     \* selected[l]: the local variable `article` of run()
    sent,         \* sent[l]: what send returned in this iteration
    handler,      \* handler[h]: the add_article request thread h serves
    sleeping,     \* sleeping[l]: seconds of the time.sleep the worker is in
    \* ---- history of the publishing system --------------------------------
    published,    \* published[l]: the mark_published calls that returned
    lastFail,     \* lastFail[l]: id whose send failed last, 0 when none
    waited,       \* waited[l]: _wait() has returned since the last send
    nSends,       \* nSends[l]: sends made by the worker, counted up to 2
    iter,         \* iter[l]: what the worker saw in this loop iteration
    stored,       \* stored[l]: the articles seeded or acknowledged with 201
    \* ---- one call of WebhookSender.send ----------------------------------
    endpoint,     \* what the endpoint answers on attempt 1, 2, ...
    sendRes,      \* the outcome of the call
    \* ---- one file written by write_json and read by read_json -----------
    fs,           \* the directory: fs[name] is the inode of name, 0 if none
    inodes,       \* inodes[i]: the content of inode i, chunk by chunk
    lock,         \* FileStore._lock: the thread that holds it, or "free"
    wr,           \* wr[w]: the call of write_json made by thread w
    rd,           \* the call of read_json made by the reader thread
    lastComplete  \* history: the content the last finished replace installed

mainVars == <<articles, ledger, today, pc, quota, selected, sent, handler,
              sleeping, published, lastFail, waited, nSends, iter, stored>>
sendVars == <<endpoint, sendRes>>
storeVars == <<fs, inodes, lock, wr, rd, lastComplete>>
auxVars == <<sendVars, storeVars>>
vars == <<mainVars, sendVars, storeVars>>

----------------------------------------------------------------------------
(* Bounds of the model *)

\* The UTC dates are 1 .. MaxDay.
MaxDay == 2
\* add_article is accepted while a collection holds fewer articles.
MaxArticles == 3
\* The ledgers found at boot, and the log file append_line writes, hold at
\* most MaxEntries entries.
MaxEntries == 2

----------------------------------------------------------------------------
(* Configuration (class Config): read from the environment.  The quota      *)
(* range is checked under the small configuration QUOTA_MIN=1, QUOTA_MAX=2; *)
(* the retry settings are the defaults.                                     *)

QUOTA_MIN == 1
QUOTA_MAX == 2
\* The interval between two deliveries, in minutes (60 and 90 by default).
INTERVAL_MIN == 1
INTERVAL_MAX == 2
HTTP_RETRIES == 3
HTTP_RETRY_WAIT == 5

\* LANG_META: the languages.  Workers of different languages share no state
\* but the FileStore lock.
Langs == {"ar", "en", "fr"}
\* The languages whose worker thread has been started.  Each language has
\* files, a ledger object and a quota of its own, and the behaviour of one
\* worker does not depend on the others: one worker is run.
MainLangs == {"ar"}

----------------------------------------------------------------------------
(* Text *)

Lit(s) == [k |-> s, n |-> 0]
Num(i) == [k |-> "num", n |-> i]
DateTok(d) == [k |-> "date", n |-> d]
NL == Lit("NL")
SP == Lit("SP")

\* s begins with p (str.startswith).
StartsWith(s, p) ==
    /\ Len(s) >= Len(p)
    /\ SubSeq(s, 1, Len(p)) = p

\* token t occurs in s (the `in` operator on a one-token needle).
Contains(s, t) == \E i \in 1..Len(s) : s[i] = t

\* str.strip(): the white space at both ends removed.
RECURSIVE Strip(_)
Strip(s) ==
    IF s = <<>> THEN <<>>
    ELSE IF Head(s) = SP THEN Strip(Tail(s))
    ELSE IF s[Len(s)] = SP THEN Strip(SubSeq(s, 1, Len(s) - 1))
    ELSE s

\* The lines of a text file, as iterating over the open file yields them
\* (without their line break): line k ends before the k-th line break, and
\* what follows the last line break is a line when it is not empty.
SplitLines(s) ==
    LET brk == {i \in 1..Len(s) : s[i] = NL}
        nb == Cardinality(brk)
        n == IF s # <<>> /\ s[Len(s)] # NL THEN nb + 1 ELSE nb
        Break(k) == CHOOSE i \in brk : Cardinality({j \in brk : j <= i}) = k
    IN [k \in 1..n |->
           SubSeq(s, IF k = 1 THEN 1 ELSE Break(k - 1) + 1,
                     IF k <= nb THEN Break(k) - 1 ELSE Len(s))]

----------------------------------------------------------------------------
(* FileStore *)

\* A faulty variant of append_line: the file is opened for writing, not appending.
append_lineTruncating(file, line) == line \o <<NL>>

\* FileStore.append_line: the file with line + "\n" added at its end.
append_line(file, line) == file \o line \o <<NL>>

\* FileStore.read_lines: [l.strip() for l in f if l.strip()].
read_lines(file) ==
    LET raw == SplitLines(file)
        stripped == [i \in 1..Len(raw) |-> Strip(raw[i])]
    IN SelectSeq(stripped, LAMBDA ln : ln # <<>>)

----------------------------------------------------------------------------
(* PublishLog *)

\* PublishLog.is_published: some line starts with "ID:<article_id>|".
is_published(file, article_id) ==
    LET lines == read_lines(file)
    IN \E i \in 1..Len(lines) :
           StartsWith(lines[i], <<Lit("ID:"), Num(article_id), Lit("|")>>)

\* The entry mark_published formats, ts being the UTC date of the call.
Entry(article, ts) ==
    <<Lit("ID:"), Num(article.id), Lit("|"), Lit("TITLE:")>> \o article.title
    \o <<Lit("|"), Lit("STATUS:published"), Lit("|"), Lit("TIME:"),
         DateTok(ts), Lit("Thh:mm:ssZ")>>

\* A faulty variant of mark_published: the entry is put on top of the file.
mark_publishedOnTop(file, article, ts) == Entry(article, ts) \o <<NL>> \o file

\* PublishLog.mark_published.
mark_published(file, article, ts) == append_line(file, Entry(article, ts))

\* PublishLog.count_today: the lines that contain today's date and the
\* status marker.
count_today(file, day) ==
    LET lines == read_lines(file)
    IN Cardinality({i \in 1..Len(lines) :
                       /\ Contains(lines[i], DateTok(day))
                       /\ Contains(lines[i], Lit("STATUS:published"))})

----------------------------------------------------------------------------
(* WebhookSender *)

\* What one HTTP attempt can end in: a response with a 2xx status, a
\* response with another status, or an exception.
Raised == {"HTTPError", "URLError", "ConnectionError", "TimeoutError",
           "ValueError"}
Outcomes == {"2xx", "status"} \cup Raised

\* The classes an exception is an instance of.
Classes(e) ==
    CASE e = "HTTPError"       -> {"HTTPError", "URLError", "OSError", "Exception"}
      [] e = "URLError"        -> {"URLError", "OSError", "Exception"}
      [] e = "ConnectionError" -> {"ConnectionError", "OSError", "Exception"}
      [] e = "TimeoutError"    -> {"TimeoutError", "OSError", "Exception"}
      [] OTHER                 -> {e, "Exception"}

\* A faulty variant of ExceptClauses: the catch-all clause is missing.
ExceptClausesNoCatchAll ==
    {"HTTPError", "URLError", "ConnectionError", "TimeoutError"}

\* The except clauses of the try statement in send.
ExceptClauses ==
    {"HTTPError", "URLError", "ConnectionError", "TimeoutError", "Exception"}

Caught(e) == Classes(e) \cap ExceptClauses # {}

\* A faulty variant of Backoff: the same wait after every attempt.
BackoffFlat(attempt) == HTTP_RETRY_WAIT

\* wait_time = cfg.HTTP_RETRY_WAIT * attempt
Backoff(attempt) == HTTP_RETRY_WAIT * attempt

\* A faulty variant of SleepsAfter: it also sleeps after the last attempt.
SleepsAfterEvery(attempt) == TRUE

\* if attempt < cfg.HTTP_RETRIES: sleep before the next attempt.
SleepsAfter(attempt) == attempt < HTTP_RETRIES

\* The for loop of send from `attempt` on; requests counts the urlopen
\* calls and sleeps lists the time.sleep calls made so far.
RECURSIVE send_loop(_, _, _, _)
send_loop(attempt, answers, requests, sleeps) ==
    IF attempt > HTTP_RETRIES
    THEN [result |-> FALSE, raised |-> FALSE,
          requests |-> requests, sleeps |-> sleeps]
    ELSE LET o == answers[attempt] IN
         IF o = "2xx"
         THEN [result |-> TRUE, raised |-> FALSE,
               requests |-> requests + 1, sleeps |-> sleeps]
         ELSE IF o \in Raised /\ ~Caught(o)
         THEN [result |-> FALSE, raised |-> TRUE,
               requests |-> requests + 1, sleeps |-> sleeps]
         ELSE send_loop(attempt + 1, answers, requests + 1,
                        IF SleepsAfter(attempt)
                        THEN Append(sleeps, [after |-> attempt,
                                             secs |-> Backoff(attempt)])
                        ELSE sleeps)

\* WebhookSender.send against an endpoint that answers answers[k] on the
\* k-th attempt.
send(answers) == send_loop(1, answers, 0, <<>>)

----------------------------------------------------------------------------
(* LanguageWorker *)

NoArticle == [id |-> 0, title |-> <<>>]

\* A faulty variant of pending: the articles in reverse file order.
RECURSIVE pendingReversed(_, _)
pendingReversed(arts, file) ==
    IF arts = <<>> THEN <<>>
    ELSE pendingReversed(Tail(arts), file)
         \o (IF is_published(file, Head(arts).id) THEN <<>> ELSE <<Head(arts)>>)

\* A faulty variant of pending: published articles are not left out.
pendingUnfiltered(arts, file) == arts

\* LanguageWorker._pending: the articles of the collection that
\* is_published does not report, in file order.
pending(arts, file) ==
    SelectSeq(arts, LAMBDA a : ~is_published(file, a.id))

\* The titles articles are given.
PlainTitle == <<Lit("x")>>
DatedTitle == <<Lit("x"), DateTok(2)>>
BrokenTitle == <<Lit("x"), NL, SP, Lit("ID:"), Num(2), Lit("|"), Lit("x")>>
Titles == {PlainTitle, DatedTitle, BrokenTitle}

\* What the endpoint answers during one send of a worker.
Answers == [1..HTTP_RETRIES -> {"2xx", "URLError"}]

Idle == [st |-> "idle", lang |-> "", title |-> <<>>, arts |-> <<>>]

\* What the worker has seen in a loop iteration: the date and the value of
\* count_today() at the quota check, the length of the pending list, the ids
\* that stood before the chosen article in the collection it read, and the
\* id whose send returned true and whose entry is not yet appended.  All
\* but the last are forgotten when the iteration's sleep ends.  lost is the
\* id whose entry was owed when the process ended, until the worker sends
\* again, and resent tells that the send of this iteration was that one.
NoIter == [day |-> 0, count |-> 0, npend |-> 0, before |-> {}, owed |-> 0,
           lost |-> 0, resent |-> FALSE]

\* A faulty variant of CheckQuota: the quota is passed only when exceeded.
CheckQuotaExceeded(l) ==
    /\ pc[l] = "check"
    /\ LET today_count == count_today(ledger[l], today) IN
       /\ pc' = [pc EXCEPT ![l] = IF today_count > quota[l]
                                  THEN "quota_sleep" ELSE "select"]
       /\ sleeping' = [sleeping EXCEPT ![l] =
                          IF today_count > quota[l] THEN 3600 ELSE 0]
       /\ iter' = [iter EXCEPT ![l] = [NoIter EXCEPT !.day = today,
                                                     !.count = today_count,
                                                     !.owed = iter[l].owed,
                                                     !.lost = iter[l].lost]]
    /\ UNCHANGED <<articles, ledger, today, quota, selected, sent, handler,
                   published, lastFail, waited, nSends, stored, auxVars>>

\* while True: today_count = self.log.count_today(); when the quota is
\* reached, time.sleep(3600).
CheckQuota(l) ==
    /\ pc[l] = "check"
    /\ LET today_count == count_today(ledger[l], today) IN
       /\ pc' = [pc EXCEPT ![l] = IF today_count >= quota[l]
                                  THEN "quota_sleep" ELSE "select"]
       /\ sleeping' = [sleeping EXCEPT ![l] =
                          IF today_count >= quota[l] THEN 3600 ELSE 0]
       /\ iter' = [iter EXCEPT ![l] = [NoIter EXCEPT !.day = today,
                                                     !.count = today_count,
                                                     !.owed = iter[l].owed,
                                                     !.lost = iter[l].lost]]
    /\ UNCHANGED <<articles, ledger, today, quota, selected, sent, handler,
                   published, lastFail, waited, nSends, stored, auxVars>>

\* A faulty variant of QuotaWake: the worker goes on to the pending list
\* without counting again.
QuotaWakeNoRecheck(l) ==
    /\ pc[l] = "quota_sleep"
    /\ pc' = [pc EXCEPT ![l] = "select"]
    /\ sleeping' = [sleeping EXCEPT ![l] = 0]
    /\ iter' = [iter EXCEPT ![l] = [NoIter EXCEPT !.owed = iter[l].owed,
                                                  !.lost = iter[l].lost]]
    /\ UNCHANGED <<articles, ledger, today, quota, selected, sent, handler,
                   published, lastFail, waited, nSends, stored, auxVars>>

\* time.sleep(3600) ends; continue
QuotaWake(l) ==
    /\ pc[l] = "quota_sleep"
    /\ pc' = [pc EXCEPT ![l] = "check"]
    /\ sleeping' = [sleeping EXCEPT ![l] = 0]
    /\ iter' = [iter EXCEPT ![l] = [NoIter EXCEPT !.owed = iter[l].owed,
                                                  !.lost = iter[l].lost]]
    /\ UNCHANGED <<articles, ledger, today, quota, selected, sent, handler,
                   published, lastFail, waited, nSends, stored, auxVars>>

\* The ids of the articles that stand before the first pending one.
Before(arts, file) ==
    LET first == CHOOSE i \in 1..Len(arts) :
                     /\ ~is_published(file, arts[i].id)
                     /\ \A j \in 1..(i - 1) : is_published(file, arts[j].id)
    IN {arts[j].id : j \in 1..(first - 1)}

\* pending = self._pending(); when it is empty, time.sleep(300);
\* else article = pending[0]
Select(l) ==
    /\ pc[l] = "select"
    /\ LET pend == pending(articles[l], ledger[l]) IN
       IF pend = <<>>
       THEN /\ pc' = [pc EXCEPT ![l] = "idle_sleep"]
            /\ sleeping' = [sleeping EXCEPT ![l] = 300]
            /\ iter' = [iter EXCEPT ![l].npend = 0]
            /\ UNCHANGED selected
       ELSE /\ pc' = [pc EXCEPT ![l] = "render"]
            /\ selected' = [selected EXCEPT ![l] = pend[1]]
            /\ iter' = [iter EXCEPT ![l].npend = Len(pend),
                                    ![l].before = Before(articles[l], ledger[l])]
            /\ UNCHANGED sleeping
    /\ UNCHANGED <<articles, ledger, today, quota, sent, handler,
                   published, lastFail, waited, nSends, stored, auxVars>>

\* read_json raises inside _pending (an I/O error, a file that is not
\* JSON): nothing in run() catches it and the thread ends.
SelectRaises(l) ==
    /\ pc[l] = "select"
    /\ pc' = [pc EXCEPT ![l] = "dead"]
    /\ UNCHANGED <<articles, ledger, today, quota, selected, sent, handler,
                   sleeping, published, lastFail, waited, nSends, iter, stored,
                   auxVars>>

\* time.sleep(300) ends; continue
IdleWake(l) ==
    /\ pc[l] = "idle_sleep"
    /\ pc' = [pc EXCEPT ![l] = "check"]
    /\ sleeping' = [sleeping EXCEPT ![l] = 0]
    /\ iter' = [iter EXCEPT ![l] = [NoIter EXCEPT !.owed = iter[l].owed,
                                                  !.lost = iter[l].lost]]
    /\ UNCHANGED <<articles, ledger, today, quota, selected, sent, handler,
                   published, lastFail, waited, nSends, stored, auxVars>>

\* builder = ArticleBuilder(article, self.meta); subject, html = builder.build()
Render(l) ==
    /\ pc[l] = "render"
    /\ pc' = [pc EXCEPT ![l] = "deliver"]
    /\ UNCHANGED <<articles, ledger, today, quota, selected, sent, handler,
                   sleeping, published, lastFail, waited, nSends, iter, stored,
                   auxVars>>

\* A faulty variant of Deliver: the entry is appended before the article is
\* sent.
DeliverMarksFirst(l) ==
    /\ pc[l] = "deliver"
    /\ ledger' = [ledger EXCEPT ![l] = mark_published(@, selected[l], today)]
    /\ \E answers \in Answers :
         LET r == send(answers) IN
         /\ pc' = [pc EXCEPT ![l] = IF r.raised THEN "dead" ELSE "record"]
         /\ sent' = [sent EXCEPT ![l] = r.result]
         /\ lastFail' = [lastFail EXCEPT ![l] =
                            IF r.result THEN 0 ELSE selected[l].id]
         /\ iter' = [iter EXCEPT ![l].owed =
                                     IF r.result THEN selected[l].id ELSE @,
                                  ![l].lost = 0,
                                  ![l].resent = (iter[l].lost # 0)]
    /\ waited' = [waited EXCEPT ![l] = FALSE]
    /\ nSends' = [nSends EXCEPT ![l] = IF @ < 2 THEN @ + 1 ELSE @]
    /\ UNCHANGED <<articles, today, quota, selected, handler,
                   sleeping, published, stored, auxVars>>

\* self.sender.send(subject, html)
Deliver(l) ==
    /\ pc[l] = "deliver"
    /\ \E answers \in Answers :
         LET r == send(answers) IN
         /\ pc' = [pc EXCEPT ![l] = IF r.raised THEN "dead" ELSE "record"]
         /\ sent' = [sent EXCEPT ![l] = r.result]
         /\ lastFail' = [lastFail EXCEPT ![l] =
                            IF r.result THEN 0 ELSE selected[l].id]
         /\ iter' = [iter EXCEPT ![l].owed =
                                     IF r.result THEN selected[l].id ELSE @,
                                  ![l].lost = 0,
                                  ![l].resent = (iter[l].lost # 0)]
    /\ waited' = [waited EXCEPT ![l] = FALSE]
    /\ nSends' = [nSends EXCEPT ![l] = IF @ < 2 THEN @ + 1 ELSE @]
    /\ UNCHANGED <<articles, ledger, today, quota, selected, handler,
                   sleeping, published, stored, auxVars>>

\* A faulty variant of Record: the article is marked whatever send returned.
RecordAlways(l) ==
    /\ pc[l] = "record"
    /\ ledger' = [ledger EXCEPT ![l] = mark_published(@, selected[l], today)]
    /\ published' = [published EXCEPT ![l] =
                        Append(@, [id |-> selected[l].id, day |-> today])]
    /\ iter' = [iter EXCEPT ![l].owed = 0]
    /\ pc' = [pc EXCEPT ![l] = "sleep"]
    /\ \E m \in INTERVAL_MIN..INTERVAL_MAX :
         sleeping' = [sleeping EXCEPT ![l] = m * 60]
    /\ UNCHANGED <<articles, today, quota, selected, sent, handler,
                   lastFail, waited, nSends, stored, auxVars>>

\* A faulty variant of Record: the entry is written for the article that
\* heads the collection.
RecordFirstArticle(l) ==
    /\ pc[l] = "record"
    /\ IF sent[l]
       THEN /\ ledger' = [ledger EXCEPT ![l] =
                             mark_published(@, articles[l][1], today)]
            /\ published' = [published EXCEPT ![l] =
                                Append(@, [id |-> articles[l][1].id, day |-> today])]
            /\ iter' = [iter EXCEPT ![l].owed = 0]
       ELSE UNCHANGED <<ledger, published, iter>>
    /\ pc' = [pc EXCEPT ![l] = "sleep"]
    /\ \E m \in INTERVAL_MIN..INTERVAL_MAX :
         sleeping' = [sleeping EXCEPT ![l] = m * 60]
    /\ UNCHANGED <<articles, today, quota, selected, sent, handler,
                   lastFail, waited, nSends, stored, auxVars>>

\* A faulty variant of Record: after a failed send the interval is doubled.
RecordBacksOff(l) ==
    /\ pc[l] = "record"
    /\ IF sent[l]
       THEN /\ ledger' = [ledger EXCEPT ![l] =
                             mark_published(@, selected[l], today)]
            /\ published' = [published EXCEPT ![l] =
                                Append(@, [id |-> selected[l].id, day |-> today])]
            /\ iter' = [iter EXCEPT ![l].owed = 0]
       ELSE UNCHANGED <<ledger, published, iter>>
    /\ pc' = [pc EXCEPT ![l] = "sleep"]
    /\ \E m \in INTERVAL_MIN..INTERVAL_MAX :
         sleeping' = [sleeping EXCEPT ![l] =
                         IF sent[l] THEN m * 60 ELSE 2 * m * 60]
    /\ UNCHANGED <<articles, today, quota, selected, sent, handler,
                   lastFail, waited, nSends, stored, auxVars>>

\* if send(...): self.log.mark_published(article) else: logger.error(...);
\* then self._wait() draws the interval and calls time.sleep.
Record(l) ==
    /\ pc[l] = "record"
    /\ IF sent[l]
       THEN /\ ledger' = [ledger EXCEPT ![l] =
                             mark_published(@, selected[l], today)]
            /\ published' = [published EXCEPT ![l] =
                                Append(@, [id |-> selected[l].id, day |-> today])]
            /\ iter' = [iter EXCEPT ![l].owed = 0]
       ELSE UNCHANGED <<ledger, published, iter>>
    /\ pc' = [pc EXCEPT ![l] = "sleep"]
    /\ \E m \in INTERVAL_MIN..INTERVAL_MAX :
         sleeping' = [sleeping EXCEPT ![l] = m * 60]
    /\ UNCHANGED <<articles, today, quota, selected, sent, handler,
                   lastFail, waited, nSends, stored, auxVars>>

\* append_line raises inside mark_published (an I/O error): nothing in
\* run() catches it and the thread ends.
RecordRaises(l) ==
    /\ pc[l] = "record"
    /\ sent[l]
    /\ pc' = [pc EXCEPT ![l] = "dead"]
    /\ UNCHANGED <<articles, ledger, today, quota, selected, sent, handler,
                   sleeping, published, lastFail, waited, nSends, iter, stored,
                   auxVars>>

\* self._wait(): the interval sleep ends.
Wake(l) ==
    /\ pc[l] = "sleep"
    /\ pc' = [pc EXCEPT ![l] = "check"]
    /\ waited' = [waited EXCEPT ![l] = TRUE]
    /\ sleeping' = [sleeping EXCEPT ![l] = 0]
    /\ iter' = [iter EXCEPT ![l] = [NoIter EXCEPT !.owed = iter[l].owed,
                                                  !.lost = iter[l].lost]]
    /\ UNCHANGED <<articles, ledger, today, quota, selected, sent, handler,
                   published, lastFail, nSends, stored, auxVars>>

----------------------------------------------------------------------------
(* The worker's record step with FileStore._lock made explicit *)

\* else: logger.error(...); self._wait()
LogFailure(l) ==
    /\ pc[l] = "record"
    /\ ~sent[l]
    /\ pc' = [pc EXCEPT ![l] = "sleep"]
    /\ \E m \in INTERVAL_MIN..INTERVAL_MAX :
         sleeping' = [sleeping EXCEPT ![l] = m * 60]
    /\ UNCHANGED <<articles, ledger, today, quota, selected, sent, handler,
                   published, lastFail, waited, nSends, iter, stored, auxVars>>

\* mark_published -> append_line: with FileStore._lock.
MarkAcquire(l) ==
    /\ pc[l] = "record"
    /\ sent[l]
    /\ lock = "free"
    /\ lock' = l
    /\ pc' = [pc EXCEPT ![l] = "append"]
    /\ UNCHANGED <<articles, ledger, today, quota, selected, sent, handler,
                   sleeping, published, lastFail, waited, nSends, iter, stored,
                   sendVars, fs, inodes, wr, rd, lastComplete>>

\* A faulty variant of MarkAppend: the lock is kept over the interval sleep.
MarkAppendKeepsLock(l) ==
    /\ pc[l] = "append"
    /\ lock = l
    /\ ledger' = [ledger EXCEPT ![l] = mark_published(@, selected[l], today)]
    /\ published' = [published EXCEPT ![l] =
                        Append(@, [id |-> selected[l].id, day |-> today])]
    /\ iter' = [iter EXCEPT ![l].owed = 0]
    /\ pc' = [pc EXCEPT ![l] = "sleep"]
    /\ \E m \in INTERVAL_MIN..INTERVAL_MAX :
         sleeping' = [sleeping EXCEPT ![l] = m * 60]
    /\ UNCHANGED <<articles, today, quota, selected, sent, handler,
                   lastFail, waited, nSends, stored, auxVars>>

\* A faulty variant of MarkAppend: all languages share one log file.
MarkAppendSharedLog(l) ==
    /\ pc[l] = "append"
    /\ lock = l
    /\ ledger' = [k \in Langs |-> mark_published(ledger[k], selected[l], today)]
    /\ published' = [published EXCEPT ![l] =
                        Append(@, [id |-> selected[l].id, day |-> today])]
    /\ iter' = [iter EXCEPT ![l].owed = 0]
    /\ lock' = "free"
    /\ pc' = [pc EXCEPT ![l] = "sleep"]
    /\ \E m \in INTERVAL_MIN..INTERVAL_MAX :
         sleeping' = [sleeping EXCEPT ![l] = m * 60]
    /\ UNCHANGED <<articles, today, quota, selected, sent, handler,
                   lastFail, waited, nSends, stored,
                   sendVars, fs, inodes, wr, rd, lastComplete>>

\* append_line writes the entry, the with statement releases the lock;
\* then self._wait().
MarkAppend(l) ==
    /\ pc[l] = "append"
    /\ lock = l
    /\ ledger' = [ledger EXCEPT ![l] = mark_published(@, selected[l], today)]
    /\ published' = [published EXCEPT ![l] =
                        Append(@, [id |-> selected[l].id, day |-> today])]
    /\ iter' = [iter EXCEPT ![l].owed = 0]
    /\ lock' = "free"
    /\ pc' = [pc EXCEPT ![l] = "sleep"]
    /\ \E m \in INTERVAL_MIN..INTERVAL_MAX :
         sleeping' = [sleeping EXCEPT ![l] = m * 60]
    /\ UNCHANGED <<articles, today, quota, selected, sent, handler,
                   lastFail, waited, nSends, stored,
                   sendVars, fs, inodes, wr, rd, lastComplete>>

\* open or write raises inside append_line: the with statement releases the
\* lock, nothing in run() catches the exception and the thread ends.
MarkRaises(l) ==
    /\ pc[l] = "append"
    /\ lock = l
    /\ lock' = "free"
    /\ pc' = [pc EXCEPT ![l] = "dead"]
    /\ UNCHANGED <<articles, ledger, today, quota, selected, sent, handler,
                   sleeping, published, lastFail, waited, nSends, iter, stored,
                   sendVars, fs, inodes, wr, rd, lastComplete>>

----------------------------------------------------------------------------
(* The HTTP handlers, the clock and the process *)

\* The threads that serve HTTP requests.
Handlers == {"h1", "h2"}
\* The one that serves requests where requests come one at a time.
MainHandlers == {"h1"}

RECURSIVE MaxId(_)
MaxId(arts) ==
    IF arts = <<>> THEN 0
    ELSE LET m == MaxId(Tail(arts)) IN
         IF Head(arts).id > m THEN Head(arts).id ELSE m

\* add_article up to `articles = FileStore.read_json(path)`.
AddRead(h, l, title) ==
    /\ handler[h].st = "idle"
    /\ Len(articles[l]) < MaxArticles
    /\ handler' = [handler EXCEPT ![h] =
                      [st |-> "read", lang |-> l, title |-> title,
                       arts |-> articles[l]]]
    /\ UNCHANGED <<articles, ledger, today, pc, quota, selected, sent,
                   sleeping, published, lastFail, waited, nSends, iter, stored,
                   auxVars>>

\* add_article from `new_id = max(...) + 1` to FileStore.write_json and the
\* 201 response.
AddWrite(h) ==
    /\ handler[h].st = "read"
    /\ LET new_id == MaxId(handler[h].arts) + 1
           article == [id |-> new_id, title |-> handler[h].title]
       IN /\ articles' = [articles EXCEPT ![handler[h].lang] =
                             Append(handler[h].arts, article)]
          /\ stored' = [stored EXCEPT ![handler[h].lang] = Append(@, article)]
    /\ handler' = [handler EXCEPT ![h] = Idle]
    /\ UNCHANGED <<ledger, today, pc, quota, selected, sent,
                   sleeping, published, lastFail, waited, nSends, iter, auxVars>>

\* status, list_articles and preview: PublishLog(...) touches the log file,
\* read_json and read_lines read; nothing is written.
ViewRequest(l) ==
    /\ l \in Langs
    /\ UNCHANGED vars

\* A faulty variant of Tick: every worker draws a new quota when the date
\* changes.
TickRedrawsQuota ==
    /\ today < MaxDay
    /\ today' = today + 1
    /\ \E q \in [MainLangs -> QUOTA_MIN..QUOTA_MAX] :
         quota' = [l \in Langs |-> IF l \in MainLangs THEN q[l] ELSE quota[l]]
    /\ UNCHANGED <<articles, ledger, pc, selected, sent, handler,
                   sleeping, published, lastFail, waited, nSends, iter, stored,
                   auxVars>>

\* The UTC date advances.
Tick ==
    /\ today < MaxDay
    /\ today' = today + 1
    /\ UNCHANGED <<articles, ledger, pc, quota, selected, sent, handler,
                   sleeping, published, lastFail, waited, nSends, iter, stored,
                   auxVars>>

\* The process ends and boots again (start_workers): the files stay, the
\* threads start over and every worker draws a new quota.
Restart ==
    /\ pc' = [l \in Langs |-> IF l \in MainLangs THEN "check" ELSE pc[l]]
    /\ \E q \in [MainLangs -> QUOTA_MIN..QUOTA_MAX] :
         quota' = [l \in Langs |-> IF l \in MainLangs THEN q[l] ELSE quota[l]]
    /\ selected' = [l \in Langs |-> NoArticle]
    /\ sent' = [l \in Langs |-> FALSE]
    /\ handler' = [h \in Handlers |-> Idle]
    /\ sleeping' = [l \in Langs |-> 0]
    /\ lastFail' = [l \in Langs |-> 0]
    /\ waited' = [l \in Langs |-> FALSE]
    /\ iter' = [l \in Langs |->
                   [NoIter EXCEPT !.lost = IF iter[l].owed # 0 THEN iter[l].owed
                                           ELSE iter[l].lost]]
    /\ UNCHANGED <<articles, ledger, today, published, nSends, stored, auxVars>>

----------------------------------------------------------------------------
(* FileStore.write_json and FileStore.read_json on one path *)

Path == <<"articles.json">>
\* The log file append_line writes to.
LogPath == <<"log.txt">>
Writers == {"w1", "w2"}
Inos == 1..5

OldData == <<"o1", "o2">>
Data == {<<"a1", "a2">>, <<"b1", "b2", "b3">>}
\* What stands for the content of a path that has no file.
Absent == <<"no file">>

NoWrite == [st |-> "idle", data |-> <<>>, old |-> <<>>, fd |-> 0, pos |-> 0]
NoRead == [st |-> "idle", fd |-> 0, buf |-> <<>>]

\* The content of a path.
ContentOf(name) == IF fs[name] = 0 THEN Absent ELSE inodes[fs[name]]

\* A faulty variant of WriteTarget: the data is written to the path itself.
WriteTargetInPlace(path) == path

\* tmp = path + ".tmp"
WriteTarget(path) == Append(path, ".tmp")

Names == {Path, Append(Path, ".tmp"), LogPath}

\* The inodes no name and no open file refers to.
FreeInos ==
    Inos \ ({fs[n] : n \in Names} \cup {wr[w].fd : w \in Writers} \cup {rd.fd})

\* Unreferenced inodes are dropped.
Collect(f, i, w, r) ==
    [n \in Inos |->
        IF n \in {f[x] : x \in Names} \cup {w[x].fd : x \in Writers} \cup {r.fd}
        THEN i[n] ELSE <<>>]

\* write_json(path, data) is called and takes FileStore._lock.
WAcquire(w, data) ==
    /\ wr[w].st = "idle"
    /\ lock = "free"
    /\ lock' = w
    /\ wr' = [wr EXCEPT ![w] = [st |-> "locked", data |-> data,
                                old |-> ContentOf(Path), fd |-> 0, pos |-> 0]]
    /\ UNCHANGED <<fs, inodes, rd, lastComplete, mainVars, sendVars>>

\* open(tmp, "w"): the file is created, or emptied if it exists.
WOpen(w) ==
    /\ wr[w].st = "locked"
    /\ LET target == WriteTarget(Path)
           ino == IF fs[target] # 0 THEN fs[target]
                  ELSE CHOOSE i \in FreeInos : \A j \in FreeInos : i <= j
       IN /\ fs' = [fs EXCEPT ![target] = ino]
          /\ inodes' = [inodes EXCEPT ![ino] = <<>>]
          /\ wr' = [wr EXCEPT ![w].st = "writing", ![w].fd = ino]
    /\ UNCHANGED <<lock, rd, lastComplete, mainVars, sendVars>>

\* json.dump writes the next piece of the data.
WWrite(w) ==
    /\ wr[w].st = "writing"
    /\ wr[w].pos < Len(wr[w].data)
    /\ inodes' = [inodes EXCEPT ![wr[w].fd] = Append(@, wr[w].data[wr[w].pos + 1])]
    /\ wr' = [wr EXCEPT ![w].pos = @ + 1]
    /\ UNCHANGED <<fs, lock, rd, lastComplete, mainVars, sendVars>>

\* The with statement closes the file.
WClose(w) ==
    /\ wr[w].st = "writing"
    /\ wr[w].pos = Len(wr[w].data)
    /\ wr' = [wr EXCEPT ![w].st = "closed", ![w].fd = 0]
    /\ UNCHANGED <<fs, inodes, lock, rd, lastComplete, mainVars, sendVars>>

\* os.replace(tmp, path)
WReplace(w) ==
    /\ wr[w].st = "closed"
    /\ LET target == WriteTarget(Path)
           f == IF target = Path THEN fs
                ELSE [fs EXCEPT ![Path] = fs[target], ![target] = 0]
           w2 == [wr EXCEPT ![w].st = "replaced"]
       IN /\ fs' = f
          /\ wr' = w2
          /\ inodes' = Collect(f, inodes, w2, rd)
    /\ lastComplete' = wr[w].data
    /\ UNCHANGED <<lock, rd, mainVars, sendVars>>

\* The with statement releases FileStore._lock and write_json returns.
WRelease(w) ==
    /\ wr[w].st = "replaced"
    /\ lock' = "free"
    /\ wr' = [wr EXCEPT ![w] = NoWrite]
    /\ UNCHANGED <<fs, inodes, rd, lastComplete, mainVars, sendVars>>

\* A faulty variant of WRaises: the lock is not released when the call raises.
WRaisesKeepsLock(w) ==
    /\ wr[w].st \in {"locked", "writing", "closed"}
    /\ wr' = [wr EXCEPT ![w] = NoWrite]
    /\ inodes' = Collect(fs, inodes, [wr EXCEPT ![w] = NoWrite], rd)
    /\ UNCHANGED <<fs, lock, rd, lastComplete, mainVars, sendVars>>

\* open, json.dump or os.replace raises (an I/O error): the with statements
\* close the file and release the lock, and write_json raises.
WRaises(w) ==
    /\ wr[w].st \in {"locked", "writing", "closed"}
    /\ lock' = "free"
    /\ wr' = [wr EXCEPT ![w] = NoWrite]
    /\ inodes' = Collect(fs, inodes, [wr EXCEPT ![w] = NoWrite], rd)
    /\ UNCHANGED <<fs, rd, lastComplete, mainVars, sendVars>>

\* A faulty variant of AAcquire: append_line does not take the lock.
AAcquireNoLock(w) ==
    /\ wr[w].st = "idle"
    /\ Len(ContentOf(LogPath)) < MaxEntries \/ fs[LogPath] = 0
    /\ wr' = [wr EXCEPT ![w] = [st |-> "alocked", data |-> <<"line">>,
                                old |-> <<>>, fd |-> 0, pos |-> 0]]
    /\ UNCHANGED <<fs, inodes, lock, rd, lastComplete, mainVars, sendVars>>

\* append_line(path, line) is called and takes FileStore._lock.
AAcquire(w) ==
    /\ wr[w].st = "idle"
    /\ Len(ContentOf(LogPath)) < MaxEntries \/ fs[LogPath] = 0
    /\ lock = "free"
    /\ lock' = w
    /\ wr' = [wr EXCEPT ![w] = [st |-> "alocked", data |-> <<"line">>,
                                old |-> <<>>, fd |-> 0, pos |-> 0]]
    /\ UNCHANGED <<fs, inodes, rd, lastComplete, mainVars, sendVars>>

\* open(path, "a"): the file is created if it is missing and kept as it is
\* otherwise.
AOpen(w) ==
    /\ wr[w].st = "alocked"
    /\ LET ino == IF fs[LogPath] # 0 THEN fs[LogPath]
                  ELSE CHOOSE i \in FreeInos : \A j \in FreeInos : i <= j
       IN /\ fs' = [fs EXCEPT ![LogPath] = ino]
          /\ wr' = [wr EXCEPT ![w].st = "aopen", ![w].fd = ino]
    /\ UNCHANGED <<inodes, lock, rd, lastComplete, mainVars, sendVars>>

\* f.write(line + "\n"), flushed when the with statement closes the file.
AWrite(w) ==
    /\ wr[w].st = "aopen"
    /\ inodes' = [inodes EXCEPT ![wr[w].fd] = @ \o wr[w].data]
    /\ wr' = [wr EXCEPT ![w].st = "awritten", ![w].fd = 0]
    /\ UNCHANGED <<fs, lock, rd, lastComplete, mainVars, sendVars>>

\* The with statement releases FileStore._lock and append_line returns.
ARelease(w) ==
    /\ wr[w].st = "awritten"
    /\ lock' = "free"
    /\ wr' = [wr EXCEPT ![w] = NoWrite]
    /\ UNCHANGED <<fs, inodes, rd, lastComplete, mainVars, sendVars>>

\* open or write raises inside append_line: the with statements close the
\* file and release the lock.
ARaises(w) ==
    /\ wr[w].st \in {"alocked", "aopen"}
    /\ lock' = "free"
    /\ wr' = [wr EXCEPT ![w] = NoWrite]
    /\ inodes' = Collect(fs, inodes, [wr EXCEPT ![w] = NoWrite], rd)
    /\ UNCHANGED <<fs, rd, lastComplete, mainVars, sendVars>>

\* read_json: open(path, "r"); a missing file raises FileNotFoundError.
ROpen ==
    /\ rd.st = "idle"
    /\ rd' = IF fs[Path] = 0
             THEN [st |-> "notfound", fd |-> 0, buf |-> <<>>]
             ELSE [st |-> "reading", fd |-> fs[Path], buf |-> <<>>]
    /\ UNCHANGED <<fs, inodes, lock, wr, lastComplete, mainVars, sendVars>>

\* json.load reads the next piece of the open file.
RRead ==
    /\ rd.st = "reading"
    /\ Len(rd.buf) < Len(inodes[rd.fd])
    /\ rd' = [rd EXCEPT !.buf = Append(@, inodes[rd.fd][Len(rd.buf) + 1])]
    /\ UNCHANGED <<fs, inodes, lock, wr, lastComplete, mainVars, sendVars>>

\* json.load reaches the end of the file; the file is closed.
REnd ==
    /\ rd.st = "reading"
    /\ Len(rd.buf) >= Len(inodes[rd.fd])
    /\ LET r == [rd EXCEPT !.st = "done", !.fd = 0] IN
       /\ rd' = r
       /\ inodes' = Collect(fs, inodes, wr, r)
    /\ UNCHANGED <<fs, lock, wr, lastComplete, mainVars, sendVars>>

\* read_json has returned (or raised); the reader may call it again.
RReturn ==
    /\ rd.st \in {"done", "notfound"}
    /\ rd' = NoRead
    /\ UNCHANGED <<fs, inodes, lock, wr, lastComplete, mainVars, sendVars>>

\* The process dies at any point and boots again: the files stay as they
\* are, the threads and the lock are new.
Crash ==
    /\ \/ \E w \in Writers : wr[w].st # "idle"
       \/ rd.st # "idle"
    /\ wr' = [w \in Writers |-> NoWrite]
    /\ rd' = NoRead
    /\ lock' = "free"
    /\ inodes' = Collect(fs, inodes, [w \in Writers |-> NoWrite], NoRead)
    /\ UNCHANGED <<fs, lastComplete, mainVars, sendVars>>

----------------------------------------------------------------------------
(* The parts of the state a specification does not use stay as follows *)

MainIdle ==
    /\ articles = [l \in Langs |-> <<>>]
    /\ ledger = [l \in Langs |-> <<>>]
    /\ today = 1
    /\ pc = [l \in Langs |-> "unstarted"]
    /\ quota = [l \in Langs |-> QUOTA_MIN]
    /\ selected = [l \in Langs |-> NoArticle]
    /\ sent = [l \in Langs |-> FALSE]
    /\ handler = [h \in Handlers |-> Idle]
    /\ sleeping = [l \in Langs |-> 0]
    /\ published = [l \in Langs |-> <<>>]
    /\ lastFail = [l \in Langs |-> 0]
    /\ waited = [l \in Langs |-> FALSE]
    /\ nSends = [l \in Langs |-> 0]
    /\ iter = [l \in Langs |-> NoIter]
    /\ stored = articles

NoCall == [called |-> FALSE, result |-> FALSE, raised |-> FALSE,
           requests |-> 0, sleeps |-> <<>>]

SendIdle ==
    /\ endpoint = <<>>
    /\ sendRes = NoCall

StoreIdle ==
    /\ fs = [n \in Names |-> 0]
    /\ inodes = [i \in Inos |-> <<>>]
    /\ lock = "free"
    /\ wr = [w \in Writers |-> NoWrite]
    /\ rd = NoRead
    /\ lastComplete = Absent

----------------------------------------------------------------------------
(* Spec: one language worker, the add_article handler, the clock *)

\* The collection files found at boot: two articles with ids 1 and 2, as
\* seeded or as left by earlier add_article requests.
InitialCollections ==
    {<<[id |-> 1, title |-> t], [id |-> 2, title |-> PlainTitle]>> : t \in Titles}

Init ==
    /\ articles \in [Langs -> InitialCollections]
    /\ \A l \in Langs \ MainLangs : articles[l][1].title = PlainTitle
    /\ ledger = [l \in Langs |-> <<>>]
    /\ today = 1
    /\ pc = [l \in Langs |-> IF l \in MainLangs THEN "check" ELSE "unstarted"]
    /\ quota \in [Langs -> QUOTA_MIN..QUOTA_MAX]
    /\ \A l \in Langs \ MainLangs : quota[l] = QUOTA_MIN
    /\ selected = [l \in Langs |-> NoArticle]
    /\ sent = [l \in Langs |-> FALSE]
    /\ handler = [h \in Handlers |-> Idle]
    /\ sleeping = [l \in Langs |-> 0]
    /\ published = [l \in Langs |-> <<>>]
    /\ lastFail = [l \in Langs |-> 0]
    /\ waited = [l \in Langs |-> FALSE]
    /\ nSends = [l \in Langs |-> 0]
    /\ iter = [l \in Langs |-> NoIter]
    /\ stored = articles
    /\ SendIdle
    /\ StoreIdle

Worker(l) ==
    \/ CheckQuota(l)
    \/ QuotaWake(l)
    \/ Select(l)
    \/ SelectRaises(l)
    \/ IdleWake(l)
    \/ Render(l)
    \/ Deliver(l)
    \/ Record(l)
    \/ RecordRaises(l)
    \/ Wake(l)

Next ==
    \/ \E l \in MainLangs : Worker(l)
    \/ \E h \in MainHandlers, l \in MainLangs, t \in Titles : AddRead(h, l, t)
    \/ \E h \in MainHandlers : AddWrite(h)
    \/ \E l \in MainLangs : ViewRequest(l)
    \/ Tick
    \/ Restart

Spec == Init /\ [][Next]_vars

\* SpecRun: the same system while the process is not restarted.
NextRun ==
    \/ \E l \in MainLangs : Worker(l)
    \/ \E h \in MainHandlers, l \in MainLangs, t \in Titles : AddRead(h, l, t)
    \/ \E h \in MainHandlers : AddWrite(h)
    \/ \E l \in MainLangs : ViewRequest(l)
    \/ Tick

SpecRun == Init /\ [][NextRun]_vars

----------------------------------------------------------------------------
(* SpecLive: a worker whose thread keeps running, whose file reads and     *)
(* writes succeed, a clock that keeps advancing and an endpoint that keeps  *)
(* accepting                                                                *)

\* The steps of run() when no file operation raises.
RunStep(l) ==
    \/ CheckQuota(l)
    \/ QuotaWake(l)
    \/ Select(l)
    \/ IdleWake(l)
    \/ Render(l)
    \/ Deliver(l)
    \/ Record(l)
    \/ Wake(l)

\* A send that returns true.
DeliverOk(l) == Deliver(l) /\ sent'[l]

NextLive ==
    \/ \E l \in MainLangs : RunStep(l)
    \/ \E h \in MainHandlers, l \in MainLangs, t \in Titles : AddRead(h, l, t)
    \/ \E h \in MainHandlers : AddWrite(h)
    \/ Tick

\* The worker thread is scheduled again and again, the date advances (up to
\* the last date of the model), a request that was read is answered, and
\* send, called again and again, returns true again and again.
SpecLive ==
    /\ Init
    /\ [][NextLive]_vars
    /\ \A l \in MainLangs : WF_vars(RunStep(l))
    /\ \A l \in MainLangs : SF_vars(DeliverOk(l))
    /\ \A h \in MainHandlers : WF_vars(AddWrite(h))
    /\ WF_vars(Tick)

----------------------------------------------------------------------------
(* SpecAdd: add_article requests served by two threads while a worker runs *)

\* The title each thread's requests carry: the two differ, so that the
\* articles of the two threads can be told apart.
AddTitle == [h \in Handlers |-> IF h = "h1" THEN PlainTitle ELSE DatedTitle]

InitAdd ==
    /\ articles = [l \in Langs |->
                      <<[id |-> 1, title |-> PlainTitle],
                        [id |-> 2, title |-> PlainTitle]>>]
    /\ ledger = [l \in Langs |-> <<>>]
    /\ today = 1
    /\ pc = [l \in Langs |-> IF l \in MainLangs THEN "check" ELSE "unstarted"]
    /\ quota = [l \in Langs |-> IF l \in MainLangs THEN QUOTA_MAX ELSE QUOTA_MIN]
    /\ selected = [l \in Langs |-> NoArticle]
    /\ sent = [l \in Langs |-> FALSE]
    /\ handler = [h \in Handlers |-> Idle]
    /\ sleeping = [l \in Langs |-> 0]
    /\ published = [l \in Langs |-> <<>>]
    /\ lastFail = [l \in Langs |-> 0]
    /\ waited = [l \in Langs |-> FALSE]
    /\ nSends = [l \in Langs |-> 0]
    /\ iter = [l \in Langs |-> NoIter]
    /\ stored = articles
    /\ SendIdle
    /\ StoreIdle

NextAdd ==
    \/ \E h \in Handlers, l \in MainLangs : AddRead(h, l, AddTitle[h])
    \/ \E h \in Handlers : AddWrite(h)
    \/ \E l \in MainLangs : Worker(l)
    \/ Tick

SpecAdd == InitAdd /\ [][NextAdd]_vars

----------------------------------------------------------------------------
(* SpecLangs: the workers of two languages and the lock they share *)

\* The languages whose workers run side by side.
RunLangs == {"ar", "en"}

\* A collection of n articles with the ids 1 .. n.
Seeded(n) == [i \in 1..n |-> [id |-> i, title |-> PlainTitle]]

\* Every collection holds one article: a worker of quota 1 ends in the
\* quota sleep and one of a larger quota runs out of pending articles.
InitLangs ==
    /\ articles = [l \in Langs |-> IF l \in RunLangs THEN Seeded(1) ELSE <<>>]
    /\ ledger = [l \in Langs |-> <<>>]
    /\ today = 1
    /\ pc = [l \in Langs |-> IF l \in RunLangs THEN "check" ELSE "unstarted"]
    /\ quota \in [Langs -> QUOTA_MIN..QUOTA_MAX]
    /\ \A l \in Langs \ RunLangs : quota[l] = QUOTA_MIN
    /\ selected = [l \in Langs |-> NoArticle]
    /\ sent = [l \in Langs |-> FALSE]
    /\ handler = [h \in Handlers |-> Idle]
    /\ sleeping = [l \in Langs |-> 0]
    /\ published = [l \in Langs |-> <<>>]
    /\ lastFail = [l \in Langs |-> 0]
    /\ waited = [l \in Langs |-> FALSE]
    /\ nSends = [l \in Langs |-> 0]
    /\ iter = [l \in Langs |-> NoIter]
    /\ stored = articles
    /\ SendIdle
    /\ StoreIdle

\* The steps of the worker of language l, the lock included.
LangWorker(l) ==
    \/ CheckQuota(l)
    \/ QuotaWake(l)
    \/ Select(l)
    \/ SelectRaises(l)
    \/ IdleWake(l)
    \/ Render(l)
    \/ Deliver(l)
    \/ LogFailure(l)
    \/ MarkAcquire(l)
    \/ MarkAppend(l)
    \/ MarkRaises(l)
    \/ Wake(l)

NextLangs == \E l \in RunLangs : LangWorker(l)

SpecLangs == InitLangs /\ [][NextLangs]_vars

\* The worker whose thread keeps being scheduled; the other one may stay
\* where it is for ever (inside send, inside a sleep, ended), except that a
\* thread inside append_line finishes its write or raises.
FairLangs == {"en"}

SpecLangsFair ==
    /\ SpecLangs
    /\ \A l \in FairLangs : WF_vars(LangWorker(l))
    /\ \A l \in RunLangs : WF_vars(MarkAppend(l) \/ MarkRaises(l))

----------------------------------------------------------------------------
(* SpecFiles: a worker that boots on files left by earlier runs *)

\* The collections: at most MaxArticles articles with distinct ids, in any
\* order.
Collections ==
    LET ids == 1..MaxArticles IN
    UNION {{s \in [1..n -> ids] : \A i, j \in 1..n : i # j => s[i] # s[j]} :
           n \in 0..MaxArticles}

RECURSIVE WrittenLedger(_)
WrittenLedger(es) ==
    IF es = <<>> THEN <<>>
    ELSE mark_published(WrittenLedger(SubSeq(es, 1, Len(es) - 1)),
                        es[Len(es)], 1)

\* The ledgers mark_published wrote on day 1; the process boots on a later
\* day, the last one.
Ledgers ==
    LET arts == {[id |-> i, title |-> t] :
                    i \in 1..MaxArticles, t \in {PlainTitle, BrokenTitle}}
    IN {WrittenLedger(es) : es \in UNION {[1..n -> arts] : n \in 0..MaxEntries}}

InitFiles ==
    /\ \E c \in Collections :
         articles = [l \in Langs |->
                        IF l \in MainLangs
                        THEN [i \in 1..Len(c) |-> [id |-> c[i], title |-> PlainTitle]]
                        ELSE <<>>]
    /\ \E f \in Ledgers :
         ledger = [l \in Langs |-> IF l \in MainLangs THEN f ELSE <<>>]
    /\ today = MaxDay
    /\ pc = [l \in Langs |-> IF l \in MainLangs THEN "check" ELSE "unstarted"]
    /\ quota = [l \in Langs |-> QUOTA_MAX]
    /\ selected = [l \in Langs |-> NoArticle]
    /\ sent = [l \in Langs |-> FALSE]
    /\ handler = [h \in Handlers |-> Idle]
    /\ sleeping = [l \in Langs |-> 0]
    /\ published = [l \in Langs |-> <<>>]
    /\ lastFail = [l \in Langs |-> 0]
    /\ waited = [l \in Langs |-> FALSE]
    /\ nSends = [l \in Langs |-> 0]
    /\ iter = [l \in Langs |-> NoIter]
    /\ stored = articles
    /\ SendIdle
    /\ StoreIdle

\* The worker up to the choice of the article.
NextFiles ==
    \E l \in MainLangs :
        \/ CheckQuota(l)
        \/ Select(l)
        \/ IdleWake(l)

SpecFiles == InitFiles /\ [][NextFiles]_vars

----------------------------------------------------------------------------
(* SpecSend: one call of send against every endpoint behaviour *)

InitSend ==
    /\ MainIdle
    /\ StoreIdle
    /\ endpoint \in [1..HTTP_RETRIES -> Outcomes]
    /\ sendRes = NoCall

CallSend ==
    /\ ~sendRes.called
    /\ LET r == send(endpoint) IN
       sendRes' = [called |-> TRUE, result |-> r.result, raised |-> r.raised,
                   requests |-> r.requests, sleeps |-> r.sleeps]
    /\ UNCHANGED <<endpoint, mainVars, storeVars>>

NextSend == CallSend

SpecSend == InitSend /\ [][NextSend]_vars

----------------------------------------------------------------------------
(* SpecStore: two threads in write_json, one in read_json, and crashes *)

\* The file exists with its old content, or does not exist yet.
InitStore ==
    /\ MainIdle
    /\ SendIdle
    /\ \/ /\ fs = [n \in Names |-> IF n = Path THEN 1 ELSE 0]
          /\ inodes = [i \in Inos |-> IF i = 1 THEN OldData ELSE <<>>]
          /\ lastComplete = OldData
       \/ /\ fs = [n \in Names |-> 0]
          /\ inodes = [i \in Inos |-> <<>>]
          /\ lastComplete = Absent
    /\ lock = "free"
    /\ wr = [w \in Writers |-> NoWrite]
    /\ rd = NoRead

NextStore ==
    \/ \E w \in Writers, data \in Data : WAcquire(w, data)
    \/ \E w \in Writers :
          \/ WOpen(w)
          \/ WWrite(w)
          \/ WClose(w)
          \/ WReplace(w)
          \/ WRelease(w)
          \/ WRaises(w)
          \/ AAcquire(w)
          \/ AOpen(w)
          \/ AWrite(w)
          \/ ARelease(w)
          \/ ARaises(w)
    \/ ROpen
    \/ RRead
    \/ REnd
    \/ RReturn
    \/ Crash

SpecStore == InitStore /\ [][NextStore]_vars

\* The steps of thread w between taking the lock and giving it back.
InsideStep(w) ==
    \/ WOpen(w)
    \/ WWrite(w)
    \/ WClose(w)
    \/ WReplace(w)
    \/ WRelease(w)
    \/ WRaises(w)
    \/ AOpen(w)
    \/ AWrite(w)
    \/ ARelease(w)
    \/ ARaises(w)

\* SpecLock: the threads that call write_json and append_line, each call
\* raising or not, with no reader and no crash.
NextLock ==
    \/ \E w \in Writers, data \in Data : WAcquire(w, data)
    \/ \E w \in Writers : AAcquire(w)
    \/ \E w \in Writers : InsideStep(w)

SpecLock == InitStore /\ [][NextLock]_vars

\* A thread that is inside write_json or append_line keeps being scheduled;
\* whether and when threads call is free.
SpecLockFair ==
    /\ SpecLock
    /\ \A w \in Writers : WF_vars(InsideStep(w))

----------------------------------------------------------------------------
(* Properties *)

Range(s) == {s[i] : i \in 1..Len(s)}

\* The ids a ledger file holds an entry for, read off the file itself: id n
\* has an entry when the text ID:n| stands at the start of a line, after
\* white space at most.
EntryIds(file) ==
    {file[p + 1].n : p \in {q \in 1..(Len(file) - 2) :
        /\ file[q] = Lit("ID:")
        /\ file[q + 1].k = "num"
        /\ file[q + 2] = Lit("|")
        /\ \E b \in 0..(q - 1) :
              /\ b = 0 \/ file[b] = NL
              /\ \A w \in (b + 1)..(q - 1) : file[w] = SP}}

\* C1: once mark_published has been called with an article of id i,
\* is_published(i) is true in every later state, whatever runs afterwards
\* (worker iterations, further mark_published calls, add_article requests,
\* a new PublishLog on the same path after a restart).
C1_PublishedForever ==
    \A l \in Langs : \A k \in 1..Len(published[l]) :
        is_published(ledger[l], published[l][k].id)

\* C1's case: an article was marked on day 1, and since then the date
\* changed, another article was marked and add_article extended the
\* collection.
C1_Witness ==
    \E l \in Langs :
        /\ Len(published[l]) >= 2
        /\ published[l][1].day < today
        /\ Len(articles[l]) > 2

C3_CountsByTimeField ==
    \A l \in Langs : \A d \in 1..MaxDay :
        count_today(ledger[l], d) =
            Cardinality({k \in 1..Len(published[l]) : published[l][k].day = d})

\* The contents write_json was given, and the content the file had before.
Complete == {OldData} \cup Data

IsPrefix(a, b) == Len(a) <= Len(b) /\ SubSeq(b, 1, Len(a)) = a

\* C4: in every state of write_json(path, data), with a reader in read_json
\* and after a crash at any point, the destination holds the complete old
\* content (up to the rename) or the complete new content (from the rename
\* on), and what a reader gets is one complete content.
C4_DestinationNeverPartial ==
    /\ ContentOf(Path) = lastComplete
    /\ \A w \in Writers :
          /\ wr[w].st \in {"locked", "writing", "closed"}
                => ContentOf(Path) = wr[w].old
          /\ wr[w].st = "replaced" => ContentOf(Path) = wr[w].data
    /\ rd.st = "reading" => (/\ inodes[rd.fd] \in Complete
                             /\ IsPrefix(rd.buf, inodes[rd.fd]))
    /\ rd.st = "done" => rd.buf \in Complete

\* C4's case: the process died after the temporary file was written and
\* before the rename (the temporary file is left behind, complete), and a
\* reader has then read the destination.
C4_Witness ==
    /\ \A w \in Writers : wr[w].st = "idle"
    /\ ContentOf(WriteTarget(Path)) \in Data
    /\ ContentOf(Path) = OldData
    /\ rd.st = "done"
    /\ rd.buf = OldData

\* C5: if the endpoint fails on attempts 1..k-1 and answers 2xx on attempt
\* k, send returns true after exactly k requests, and the sleep after the
\* failed attempt j lasts HTTP_RETRY_WAIT * j seconds, so the delays grow
\* strictly.
C5_SucceedsOnAttemptK ==
    sendRes.called =>
        \A k \in 1..HTTP_RETRIES :
            (/\ \A j \in 1..(k - 1) : endpoint[j] # "2xx"
             /\ endpoint[k] = "2xx")
            => /\ sendRes.result = TRUE
               /\ ~sendRes.raised
               /\ sendRes.requests = k
               /\ sendRes.sleeps =
                     [j \in 1..(k - 1) |-> [after |-> j, secs |-> HTTP_RETRY_WAIT * j]]
               /\ \A j \in 1..(k - 2) :
                     sendRes.sleeps[j].secs < sendRes.sleeps[j + 1].secs

\* C5's case: fail, fail, succeed.
C5_Witness ==
    /\ sendRes.called
    /\ endpoint = <<"URLError", "status", "2xx">>
    /\ sendRes.result
    /\ sendRes.requests = 3
    /\ Len(sendRes.sleeps) = 2

\* C6: if every attempt fails, send makes exactly HTTP_RETRIES requests and
\* returns false, and it does not sleep after the last failed attempt.
C6_FailsAfterAllRetries ==
    (sendRes.called /\ \A j \in 1..HTTP_RETRIES : endpoint[j] # "2xx")
    => /\ sendRes.requests = HTTP_RETRIES
       /\ sendRes.result = FALSE
       /\ Len(sendRes.sleeps) = HTTP_RETRIES - 1
       /\ \A i \in 1..Len(sendRes.sleeps) : sendRes.sleeps[i].after < HTTP_RETRIES

\* C6's case: the endpoint failed three times.
C6_Witness ==
    /\ sendRes.called
    /\ endpoint = <<"TimeoutError", "TimeoutError", "TimeoutError">>
    /\ ~sendRes.result

\* C7: a call of send ends with a boolean, within HTTP_RETRIES requests,
\* whatever each attempt fails with; no exception leaves send.
C7_NoExceptionEscapes ==
    sendRes.called =>
        /\ ~sendRes.raised
        /\ sendRes.result \in BOOLEAN
        /\ sendRes.requests <= HTTP_RETRIES
        /\ sendRes.result = (\E j \in 1..HTTP_RETRIES : endpoint[j] = "2xx")

\* C7's case: three attempts that fail in three ways, one of them with an
\* exception that only the last except clause catches.
C7_Witness ==
    /\ sendRes.called
    /\ endpoint = <<"ValueError", "HTTPError", "ConnectionError">>
    /\ ~sendRes.result

\* C8: from an empty ledger and the collection [1, 2], the first loop
\* iteration, with the quota not reached and delivery succeeding, selects
\* article 1 and ends with is_published(1), not is_published(2) and
\* count_today() = 1 (read on the day of the append).
C8_FirstIteration ==
    \A l \in MainLangs :
        (/\ pc[l] = "sleep"
         /\ nSends[l] = 1
         /\ sent[l]
         /\ Len(published[l]) = 1
         /\ published[l][1].day = today
         /\ [i \in 1..Len(articles[l]) |-> articles[l][i].id] = <<1, 2>>)
        => /\ selected[l].id = 1
           /\ is_published(ledger[l], 1)
           /\ ~is_published(ledger[l], 2)
           /\ count_today(ledger[l], today) = 1

\* C9: when send returned false, the worker appends nothing and the article
\* is still pending; the worker sends again only after the interval sleep,
\* and then the same article if it is still the first pending one.
C9_FailedSendIsRetriedLater ==
    [][\A l \in MainLangs :
          /\ (pc[l] = "record" /\ ~sent[l] /\ pc'[l] = "sleep")
             => /\ ledger'[l] = ledger[l]
                /\ selected[l] \in Range(pending(articles'[l], ledger'[l]))
          /\ (pc[l] = "deliver" /\ pc'[l] = "record" /\ lastFail[l] # 0)
             => waited[l]
          /\ (/\ pc[l] = "select" /\ pc'[l] \in {"render", "idle_sleep"}
              /\ lastFail[l] # 0
              /\ pending(articles[l], ledger[l]) # <<>>
              /\ pending(articles[l], ledger[l])[1].id = lastFail[l])
             => (pc'[l] = "render" /\ selected'[l].id = lastFail[l])
      ]_vars

\* C9's case: a send failed, the worker slept the interval, selected the
\* same article and is about to send it again.
C9_Witness ==
    \E l \in MainLangs :
        /\ pc[l] = "deliver"
        /\ lastFail[l] # 0
        /\ waited[l]
        /\ selected[l].id = lastFail[l]

\* C10: a worker never terminates: whatever is raised in a loop iteration
\* is caught in the loop body.
C10_WorkerNeverTerminates ==
    \A l \in MainLangs : pc[l] # "dead"

\* The number of entries of a ledger file whose TIME field is dated d.
EntriesDated(file, d) ==
    Cardinality({p \in 1..(Len(file) - 1) :
                    file[p] = Lit("TIME:") /\ file[p + 1] = DateTok(d)})

\* C11: a worker started on an empty ledger and never restarted leaves, for
\* every UTC date d, at most quota entries dated d in its ledger, also when
\* the quota was checked on day d-1 and the entry is written on day d.
C11_QuotaPerDay ==
    \A l \in MainLangs : \A d \in 1..MaxDay :
        EntriesDated(ledger[l], d) <= quota[l]

\* C11's case: the quota was checked on one day with one entry left, the
\* date changed during the delivery and the entry is dated the next day.
C11_Witness ==
    \E l \in MainLangs :
        /\ pc[l] = "sleep"
        /\ published[l] # <<>>
        /\ published[l][Len(published[l])].day = iter[l].day + 1
        /\ EntriesDated(ledger[l], iter[l].day) = quota[l] - 1
        /\ EntriesDated(ledger[l], iter[l].day + 1) = 1

\* C12: send is invoked only in an iteration whose count_today() was below
\* the quota and whose pending list was not empty; a reached quota leads to
\* a sleep of 3600 seconds and an empty pending list to one of 300 seconds,
\* and from either sleep the worker goes back to the quota check without
\* rendering, sending or writing the ledger.
C12_SendOnlyAfterBothChecks ==
    [][\A l \in MainLangs :
          /\ (pc[l] = "deliver" /\ pc'[l] # "deliver")
             => (iter[l].count < quota[l] /\ iter[l].npend > 0)
          /\ (pc[l] = "check" /\ count_today(ledger[l], today) >= quota[l])
             => \/ pc'[l] = "check"
                \/ pc'[l] = "quota_sleep" /\ sleeping'[l] = 3600
          /\ (pc[l] = "check" /\ pc'[l] = "select")
             => count_today(ledger[l], today) < quota[l]
          /\ (pc[l] = "select" /\ pc'[l] = "render")
             => pending(articles[l], ledger[l]) # <<>>
          /\ (pc[l] = "select" /\ pc'[l] = "idle_sleep")
             => (pending(articles[l], ledger[l]) = <<>> /\ sleeping'[l] = 300)
          /\ pc[l] \in {"quota_sleep", "idle_sleep"}
             => /\ pc'[l] \in {pc[l], "check"}
                /\ ledger'[l] = ledger[l]
                /\ nSends'[l] = nSends[l]
      ]_vars

\* C12's case: articles are pending and the worker sleeps the hour because
\* the quota is reached.
C12_Witness ==
    \E l \in MainLangs :
        /\ pc[l] = "quota_sleep"
        /\ sleeping[l] = 3600
        /\ iter[l].count >= quota[l]
        /\ pending(articles[l], ledger[l]) # <<>>

\* C13: the ledger gets an entry only in an iteration whose send returned
\* true, and then the entry of the article that was sent; a send that
\* returned true is followed by that append before the worker sends again.
C13_EntryIffSendSucceeded ==
    [][\A l \in MainLangs :
          /\ ledger'[l] # ledger[l]
             => /\ pc[l] = "record"
                /\ sent[l]
                /\ iter[l].owed = selected[l].id
                /\ ledger'[l] = ledger[l] \o Entry(selected[l], today) \o <<NL>>
          /\ (pc[l] = "record" /\ sent[l] /\ pc'[l] = "sleep")
             => ledger'[l] # ledger[l]
          /\ (pc[l] = "deliver" /\ pc'[l] # "deliver")
             => iter[l].owed = 0
      ]_vars

\* C13's case: a send returned true, its entry was appended and the worker
\* is about to send the next article.
C13_Witness ==
    \E l \in MainLangs :
        /\ pc[l] = "deliver"
        /\ published[l] # <<>>
        /\ sent[l]
        /\ selected[l].id # published[l][Len(published[l])].id

\* The number of entries a ledger file holds for id n.
EntryCount(file, n) ==
    Cardinality({q \in 1..(Len(file) - 2) :
        /\ file[q] = Lit("ID:")
        /\ file[q + 1] = Num(n)
        /\ file[q + 2] = Lit("|")
        /\ \E b \in 0..(q - 1) :
              /\ b = 0 \/ file[b] = NL
              /\ \A w \in (b + 1)..(q - 1) : file[w] = SP})

C15_CreatedIdsDiffer ==
    \A l \in Langs : \A i, j \in 1..Len(stored[l]) :
        i # j => stored[l][i].id # stored[l][j].id

\* C16: an article that was seeded or acknowledged with 201 is in the
\* collection, with the fields it was stored with.
C16_StoredArticlesStay ==
    \A l \in Langs : \A k \in 1..Len(stored[l]) :
        \E i \in 1..Len(articles[l]) : articles[l][i] = stored[l][k]

\* C19: when an article is recorded as published, every article that stood
\* before it in the collection read in that iteration has a ledger entry,
\* that is, mark_published has been called for it.
C19_RecordedInFileOrder ==
    \A l \in MainLangs :
        (/\ pc[l] = "sleep"
         /\ sent[l]
         /\ published[l] # <<>>
         /\ published[l][Len(published[l])].id = selected[l].id)
        => iter[l].before \subseteq {published[l][k].id : k \in 1..Len(published[l])}

\* C20: a step leaves every ledger as it is or appends one entry to it.
C20_LedgerAppendOnly ==
    [][\A l \in Langs :
          \/ ledger'[l] = ledger[l]
          \/ \E n \in 1..(MaxArticles + 1), t \in Titles, d \in 1..MaxDay :
                ledger'[l] = ledger[l] \o Entry([id |-> n, title |-> t], d)
                                       \o <<NL>>
      ]_vars

\* C20's case: the ledger holds two entries, add_article has extended the
\* collection and the process has booted again, building a new PublishLog
\* on the file.
C20_Witness ==
    \E l \in MainLangs :
        /\ Len(published[l]) >= 2
        /\ Len(stored[l]) > 2
        /\ pc[l] = "check"
        /\ nSends[l] = 2
        /\ ~waited[l]

\* The threads inside the critical section of write_json or append_line.
InCriticalSection ==
    {w \in Writers : wr[w].st \in {"locked", "writing", "closed", "replaced",
                                   "alocked", "aopen", "awritten"}}

\* C17: at most one thread at a time is between taking and releasing the
\* lock in write_json or append_line, whatever the paths.
C17_OneThreadInCriticalSection ==
    /\ Cardinality(InCriticalSection) <= 1
    /\ \A w \in InCriticalSection : lock = w
    /\ InCriticalSection = {} => lock = "free"

\* C17's case: one thread is inside append_line on the log file while the
\* other has called nothing yet, after a write_json on the collection file
\* and an append_line have been through their critical sections.
C17_Witness ==
    \E w \in Writers :
        /\ wr[w].st = "aopen"
        /\ \A v \in Writers \ {w} : wr[v].st = "idle"
        /\ lastComplete \in Data
        /\ Len(ContentOf(LogPath)) = 1

\* C18: only a worker that is inside append_line holds the lock, so none
\* holds it while sending, sleeping or after it has ended; and a worker whose
\* thread is scheduled gets from the record step to its interval sleep and
\* keeps coming back to the quota check (unless it ends itself), whatever
\* the other worker does and wherever that one stays.
C18_WorkersDoNotBlockEachOther ==
    /\ [](\A l \in Langs : lock = l => pc[l] = "append")
    /\ \A l \in FairLangs :
          /\ (pc[l] = "record") ~> (pc[l] \in {"sleep", "dead"})
          /\ []<>(pc[l] \in {"check", "dead"})

\* C18's case: one worker is still inside its first send while the other
\* has sent an article, appended its entry, slept and come back.
C18_Witness ==
    \E k \in RunLangs, l \in FairLangs :
        /\ k # l
        /\ pc[k] = "deliver"
        /\ nSends[k] = 0
        /\ published[l] # <<>>
        /\ waited[l]
        /\ lock = "free"

\* C21: read_json on a path that has no file returns the empty list: no call
\* of read_json ends in FileNotFoundError.
C21_MissingFileReadsEmpty ==
    rd.st # "notfound"

\* C22: when the process ends after send returned true for an article and
\* before mark_published appended its entry, the ledger holds no entry for
\* that article after the restart, and the next send the worker makes is a
\* send of that same article.
C22_ResentAfterCrash ==
    /\ [](\A l \in MainLangs :
             iter[l].lost # 0
             => /\ ~is_published(ledger[l], iter[l].lost)
                /\ iter[l].lost \notin EntryIds(ledger[l]))
    /\ [][\A l \in MainLangs :
             (/\ pc[l] = "deliver"
              /\ pc'[l] \in {"record", "dead"}
              /\ iter[l].lost # 0)
             => selected[l].id = iter[l].lost
       ]_vars

\* C22's case: after such a restart the worker has sent the article a second
\* time and that send returned true as well.
C22_Witness ==
    \E l \in MainLangs :
        /\ pc[l] = "record"
        /\ sent[l]
        /\ iter[l].resent
        /\ iter[l].owed = selected[l].id
        /\ ~is_published(ledger[l], selected[l].id)

\* The durations _wait() can draw, in seconds.
Intervals == {m * 60 : m \in INTERVAL_MIN..INTERVAL_MAX}

\* C23: a worker that has made a delivery attempt reaches its next quota
\* check only through one interval sleep: whether send returned true or
\* false, the step after the attempt starts a sleep of a whole number of
\* minutes in [INTERVAL_MIN, INTERVAL_MAX], also after several failed
\* iterations in a row, and the end of that sleep is the quota check.
C23_OneIntervalSleepPerAttempt ==
    [][\A l \in MainLangs :
          /\ (pc[l] = "deliver" /\ pc'[l] # "deliver")
             => pc'[l] \in {"record", "dead"}
          /\ (pc[l] = "record" /\ pc'[l] # "record")
             => \/ pc'[l] = "dead"
                \/ pc'[l] = "sleep" /\ sleeping'[l] \in Intervals
          /\ pc[l] = "sleep"
             => \/ pc'[l] = "sleep" /\ sleeping'[l] = sleeping[l]
                \/ pc'[l] = "check" /\ sleeping'[l] = 0
          /\ (pc'[l] = "check" /\ pc[l] # "check")
             => pc[l] \in {"sleep", "quota_sleep", "idle_sleep"}
      ]_vars

\* C23's case: the second send in a row has failed and the worker is in an
\* interval sleep of the shortest duration.
C23_Witness ==
    \E l \in MainLangs :
        /\ pc[l] = "sleep"
        /\ ~sent[l]
        /\ nSends[l] = 2
        /\ published[l] = <<>>
        /\ lastFail[l] # 0
        /\ sleeping[l] = INTERVAL_MIN * 60

\* C24: the quota of a worker is an integer in [QUOTA_MIN, QUOTA_MAX] and no
\* step of the running process changes it, a change of the UTC date
\* included; the quota check compares the count of the current date with it.
C24_QuotaDrawnOnce ==
    /\ [](\A l \in MainLangs : quota[l] \in QUOTA_MIN..QUOTA_MAX)
    /\ [][/\ quota' = quota
          /\ \A l \in MainLangs :
                (pc[l] = "check" /\ pc'[l] # "check")
                => (pc'[l] = "quota_sleep"
                    <=> count_today(ledger[l], today) >= quota[l])
       ]_vars

\* C24's case: the worker filled its quota on one date and, checking again
\* on the next date, has filled the same quota with that date's entries.
C24_Witness ==
    \E l \in MainLangs :
        /\ today > 1
        /\ pc[l] = "quota_sleep"
        /\ iter[l].day = today
        /\ EntriesDated(ledger[l], today - 1) = quota[l]
        /\ EntriesDated(ledger[l], today) = quota[l]

\* C25: a step of the worker of language l leaves every article collection
\* as it is, its own included, and leaves the ledger of every other language
\* as it is: the one file it may change is the ledger of l.
C25_WorkerWritesOwnLedgerOnly ==
    [][\A l \in RunLangs :
          LangWorker(l)
          => /\ articles' = articles
             /\ \A k \in Langs \ {l} : ledger'[k] = ledger[k]
      ]_vars

\* C25's case: one worker has appended an entry to its ledger while the
\* other, whose send failed, has gone through its record step, and the
\* ledger of that one is empty and the collections are as they were seeded.
C25_Witness ==
    \E k, l \in RunLangs :
        /\ k # l
        /\ published[k] # <<>>
        /\ ledger[k] # <<>>
        /\ pc[l] = "sleep"
        /\ ~sent[l]
        /\ ledger[l] = <<>>
        /\ articles = stored

\* The ids of the articles of a collection.
IdsOf(arts) == {arts[i].id : i \in 1..Len(arts)}

\* The worker of l has used up the dates of the model: on the last date its
\* quota is reached.
DatesUsedUp(l) ==
    /\ today = MaxDay
    /\ count_today(ledger[l], today) >= quota[l]

\* C26: every article of a collection, seeded or added by add_article, is
\* eventually recorded by mark_published, as long as the dates of the model
\* leave room for it.
C26_EveryArticleGetsAnEntry ==
    \A l \in MainLangs : \A n \in 1..MaxArticles :
        (n \in IdsOf(articles[l]))
        ~> (\/ \E k \in 1..Len(published[l]) : published[l][k].id = n
            \/ DatesUsedUp(l))

\* C27: is_published has no false positives: it reports an id only when
\* mark_published has been called with an article of that id, whatever the
\* titles of the recorded articles are.
C27_NoFalsePositive ==
    \A l \in MainLangs : \A j \in 1..(MaxArticles + 1) :
        is_published(ledger[l], j)
        => \E k \in 1..Len(published[l]) : published[l][k].id = j

\* The number of steps thread w has left, at most, before it gives the lock
\* back.
StepsLeft(w) ==
    CASE wr[w].st = "locked" -> Len(wr[w].data) + 4
      [] wr[w].st = "writing" -> Len(wr[w].data) - wr[w].pos + 3
      [] wr[w].st = "closed" -> 2
      [] wr[w].st = "replaced" -> 1
      [] wr[w].st = "alocked" -> 3
      [] wr[w].st = "aopen" -> 2
      [] wr[w].st = "awritten" -> 1
      [] OTHER -> 0

\* C28: the lock is held only by a thread that is inside write_json or
\* append_line; the lock is taken only when it is free, by a thread that is
\* inside neither; every step of the holder brings the release nearer, a
\* raising step releasing at once; and the holder does release.
C28_LockAlwaysReleased ==
    /\ [](\A w \in Writers : lock = w <=> w \in InCriticalSection)
    /\ [][\A w \in Writers :
             /\ (lock # w /\ lock' = w)
                => (lock = "free" /\ wr[w].st = "idle")
             /\ (lock = w /\ wr'[w] # wr[w])
                => StepsLeft(w)' < StepsLeft(w)
             /\ (lock = w /\ wr'[w].st = "idle") => lock' = "free"
       ]_vars
    /\ \A w \in Writers : (lock = w) ~> (lock # w)

\* C28's case: a call of write_json raised after it had created the
\* temporary file, and a thread has taken the lock again.
C28_Witness ==
    \E w \in Writers :
        /\ wr[w].st = "locked"
        /\ lock = w
        /\ fs[WriteTarget(Path)] # 0
        /\ \A v \in Writers \ {w} : wr[v].st = "idle"

====
